---- MODULE Spec2Model ----
(***************************************************************************)
(* A model of the Gess rules engine of src/Gess.py: Stone,                 *)
(* StoneCollection, Piece, Move, Board and GessGame.                       *)
(*                                                                         *)
(* A Stone object is a record [id, row, col, owner, hidden]; the id stands *)
(* for the identity of the Python object, so that a Piece can keep         *)
(* references to stones while the list of the collection changes.          *)
(* StoneCollection._stoneList is a sequence of such records, in list       *)
(* order: get_stone_at_location and remove act on the FIRST stone of the   *)
(* list that has the wanted location.                                      *)
(***************************************************************************)
EXTENDS Integers, Sequences, FiniteSets, TLC

\* ------------------------------------------------------------------------
\* Module constants of Gess.py
\* ------------------------------------------------------------------------
BOARD_SIZE == 20

COL_LETTERS ==
  << "None", "a", "b", "c", "d", "e", "f", "g", "h", "i", "j", "k",
     "l", "m", "n", "o", "p", "q", "r", "s", "t" >>

OUTER_LOWER_BOUND == 1

OUTER_UPPER_BOUND == BOARD_SIZE

INNER_LOWER_BOUND == 2

INNER_UPPER_BOUND == BOARD_SIZE - 1

COUNT_FOR_RING == 8

OPPONENT == [p \in {"WHITE", "BLACK"} |-> IF p = "WHITE" THEN "BLACK" ELSE "WHITE"]

\* Python's None where the code returns "no stone" (an index) ...
NoStone == 0

\* ... and where Piece._maxDistance is None (unbounded); a bounded distance d
\* is the one-element sequence <<d>>.
None == << >>

\* ------------------------------------------------------------------------
\* Small helpers
\* ------------------------------------------------------------------------
abs(x) == IF x < 0 THEN 0 - x ELSE x

Loc(s) == << s.row, s.col >>

\* Concatenation of a sequence of sequences
RECURSIVE Flatten(_)
Flatten(ss) == IF ss = << >> THEN << >> ELSE Head(ss) \o Flatten(Tail(ss))

\* The ids of the stones of a list, as a set
Ids(sl) == { sl[i].id : i \in DOMAIN sl }

\* The stone object with identity id (it is in the list)
StoneById(sl, id) == sl[CHOOSE i \in DOMAIN sl : sl[i].id = id]

Range(seq) == { seq[i] : i \in DOMAIN seq }

\* ------------------------------------------------------------------------
\* Stone
\* ------------------------------------------------------------------------
Stone(id, location, owner) ==
  [id |-> id, row |-> location[1], col |-> location[2], owner |-> owner, hidden |-> FALSE]

Stone_move(s, rowDisp, colDisp) ==
  [s EXCEPT !.row = s.row + rowDisp, !.col = s.col + colDisp]

hide(s) == [s EXCEPT !.hidden = TRUE]

reveal(s) == [s EXCEPT !.hidden = FALSE]

\* ------------------------------------------------------------------------
\* StoneCollection
\* ------------------------------------------------------------------------
firstRank == << 3, 5, 7, 8, 9, 10, 11, 12, 13, 14, 16, 18 >>

\* The second rank with a stone on column 12 as well
secondRank_with_column_12 == << 2, 3, 4, 6, 8, 9, 10, 11, 12, 13, 15, 17, 18, 19 >>

secondRank == << 2, 3, 4, 6, 8, 9, 10, 11, 13, 15, 17, 18, 19 >>

thirdRank == firstRank

\* The fourth rank without its stone on column 3
fourthRank_without_column_3 == << 6, 9, 12, 15, 18 >>

fourthRank == << 3, 6, 9, 12, 15, 18 >>

\* The layout with WHITE's fourth rank one row further from the midline
stoneLayout_white_fourth_row_15 ==
  << << "WHITE", << <<19, firstRank>>, <<18, secondRank>>, <<17, thirdRank>>, <<15, fourthRank>> >> >>,
     << "BLACK", << <<2, firstRank>>, <<3, secondRank>>, <<4, thirdRank>>, <<7, fourthRank>> >> >> >>

\* The dict of dicts of populate(), in insertion order
stoneLayout ==
  << << "WHITE", << <<19, firstRank>>, <<18, secondRank>>, <<17, thirdRank>>, <<14, fourthRank>> >> >>,
     << "BLACK", << <<2, firstRank>>, <<3, secondRank>>, <<4, thirdRank>>, <<7, fourthRank>> >> >> >>

populate ==
  LET rowStones(color, rr) ==
        [k \in 1..Len(rr[2]) |-> [loc |-> << rr[1], rr[2][k] >>, owner |-> color]]
      colorStones(cl) ==
        Flatten([r \in 1..Len(cl[2]) |-> rowStones(cl[1], cl[2][r])])
      all == Flatten([c \in 1..Len(stoneLayout) |-> colorStones(stoneLayout[c])])
  IN  [i \in 1..Len(all) |-> Stone(i, all[i].loc, all[i].owner)]

\* StoneCollection.is_empty for a list of stones
is_empty(stones) == \A i \in DOMAIN stones : stones[i].hidden

\* Index of the first stone of the list, among the indexes in S, that lies at
\* targetLoc; NoStone if there is none
FirstAt(sl, S, targetLoc) ==
  LET at == { i \in S : sl[i].row = targetLoc[1] /\ sl[i].col = targetLoc[2] }
  IN  IF at = {} THEN NoStone ELSE CHOOSE i \in at : \A j \in at : i <= j

\* get_stone_at_location(targetLoc): the first stone of the list at targetLoc
\* (as its index), NoStone for None
get_stone_at_location(sl, targetLoc) == FirstAt(sl, DOMAIN sl, targetLoc)

\* The 9 cells about a center, in scan order (rowOffset -1..1, then colOffset -1..1)
locationsToSearch(center) ==
  [k \in 1..9 |-> << center[1] + ((k - 1) \div 3) - 1, center[2] + ((k - 1) % 3) - 1 >>]

\* get_stones_about_center(center): for each of the 9 cells in scan order the
\* first stone of the list at that cell, hidden or not, as list indexes.  The
\* search of each cell looks at the stones of the 3x3 area only, which are the
\* only ones that can be found.
get_stones_about_center(sl, center) ==
  LET cells == locationsToSearch(center)
      near  == { i \in DOMAIN sl : /\ sl[i].row - center[1] \in -1..1
                                   /\ sl[i].col - center[2] \in -1..1 }
      found == [k \in 1..9 |-> FirstAt(sl, near, cells[k])]
  IN  SelectSeq(found, LAMBDA i : i # NoStone)

\* remove(targetLoc): the list without its first stone at targetLoc
remove(sl, targetLoc) ==
  LET i == get_stone_at_location(sl, targetLoc)
  IN  IF i = NoStone THEN sl
      ELSE [k \in 1..(Len(sl) - 1) |-> IF k < i THEN sl[k] ELSE sl[k + 1]]

\* get_displacement(origin, destination)
get_displacement(origin, destination) ==
  << destination[1] - origin[1], destination[2] - origin[2] >>

\* ------------------------------------------------------------------------
\* Piece: [center, stoneList (ids of the referenced stones, in footprint scan
\* order), directions, maxDistance]
\* ------------------------------------------------------------------------
\* list.remove(x): the list without the first occurrence of x
RemoveFirst(seq, x) ==
  IF \E i \in DOMAIN seq : seq[i] = x
  THEN LET i == CHOOSE k \in DOMAIN seq : seq[k] = x /\ \A j \in 1..(k - 1) : seq[j] # x
       IN  [k \in 1..(Len(seq) - 1) |-> IF k < i THEN seq[k] ELSE seq[k + 1]]
  ELSE seq

\* The offsets of the stones with the centre's own (0, 0) left in
determine_directions_with_centre(center, stones) ==
  [k \in DOMAIN stones |-> << stones[k].row - center[1], stones[k].col - center[2] >>]

\* Piece.__determine_directions, from the stones given to the constructor
determine_directions(center, stones) ==
  LET directions == [k \in DOMAIN stones |->
                       << stones[k].row - center[1], stones[k].col - center[2] >>]
  IN  IF \E k \in DOMAIN directions : directions[k] = << 0, 0 >>
      THEN RemoveFirst(directions, << 0, 0 >>)
      ELSE directions

\* Unbounded as soon as the piece has a stone, wherever it lies
determine_max_distance_any_stone(center, stones) ==
  IF stones # << >> THEN None ELSE << 3 >>

\* Piece.__determine_max_distance
determine_max_distance(center, stones) ==
  IF \E k \in DOMAIN stones : Loc(stones[k]) = center THEN None ELSE << 3 >>

\* Piece.__init__(center, stones); stones is a list of stone objects
Piece(center, stones) ==
  [center      |-> center,
   stoneList   |-> [k \in DOMAIN stones |-> stones[k].id],
   directions  |-> determine_directions(center, stones),
   maxDistance |-> determine_max_distance(center, stones)]

\* The stone objects a piece refers to, read from the collection
PieceStones(sl, piece) == [k \in DOMAIN piece.stoneList |-> StoneById(sl, piece.stoneList[k])]

\* contains_color that looks at the stones that are not hidden only
contains_color_not_hidden(sl, piece, color) ==
  LET ids == Range(piece.stoneList)
  IN  \E i \in DOMAIN sl : sl[i].id \in ids /\ sl[i].owner = color /\ ~sl[i].hidden

\* Piece.contains_color
contains_color(sl, piece, color) ==
  LET ids == Range(piece.stoneList)
  IN  \E i \in DOMAIN sl : sl[i].id \in ids /\ sl[i].owner = color

\* Line 297 compares the bound method get_location (not its result) with the
\* centre tuple; a method object is never equal to a tuple.
method_object_equals(value) == FALSE

\* Piece.is_legal(player)
Piece_is_legal(sl, piece, player) ==
  LET oneCenterStone ==
        IF Len(piece.stoneList) = 1
        THEN method_object_equals(piece.center)
        ELSE FALSE
  IN  /\ ~contains_color(sl, piece, OPPONENT[player])
      /\ piece.stoneList # << >>
      /\ ~oneCenterStone

\* Piece.pick_up: hides every stone the piece refers to
pick_up(sl, piece) ==
  LET ids == Range(piece.stoneList)
  IN  [i \in DOMAIN sl |-> IF sl[i].id \in ids THEN hide(sl[i]) ELSE sl[i]]

\* put_down without stone.reveal(): the stones are translated but stay hidden
put_down_without_reveal(sl, piece, destination) ==
  LET displ == get_displacement(piece.center, destination)
      ids   == Range(piece.stoneList)
  IN  [i \in DOMAIN sl |->
         IF sl[i].id \in ids THEN Stone_move(sl[i], displ[1], displ[2]) ELSE sl[i]]

\* put_down that reveals every stone of the collection
put_down_revealing_all(sl, piece, destination) ==
  LET displ == get_displacement(piece.center, destination)
      ids   == Range(piece.stoneList)
  IN  [i \in DOMAIN sl |->
         IF sl[i].id \in ids THEN Stone_move(reveal(sl[i]), displ[1], displ[2])
         ELSE reveal(sl[i])]

\* Piece.put_down(destination): reveals and translates every stone of the piece
put_down(sl, piece, destination) ==
  LET displ == get_displacement(piece.center, destination)
      ids   == Range(piece.stoneList)
  IN  [i \in DOMAIN sl |->
         IF sl[i].id \in ids THEN Stone_move(reveal(sl[i]), displ[1], displ[2]) ELSE sl[i]]

\* ------------------------------------------------------------------------
\* Board
\* ------------------------------------------------------------------------
\* Board.create_piece(center)
create_piece(sl, center) ==
  LET idx == get_stones_about_center(sl, center)
  IN  Piece(center, [k \in DOMAIN idx |-> sl[idx[k]]])

\* Board.capture(center): the stones found about the centre are taken first,
\* then every one of them that is not hidden is removed by its location
RECURSIVE RemoveAll(_, _)
RemoveAll(sl, locs) ==
  IF locs = << >> THEN sl ELSE RemoveAll(remove(sl, Head(locs)), Tail(locs))

capture(sl, center) ==
  LET idx            == get_stones_about_center(sl, center)
      capturedStones == [k \in DOMAIN idx |-> sl[idx[k]]]
      notHidden      == SelectSeq(capturedStones, LAMBDA s : ~s.hidden)
  IN  RemoveAll(sl, [k \in DOMAIN notHidden |-> Loc(notHidden[k])])

\* The boundary test taking rows and columns 2 and 19 for the boundary as well
out_of_bounds_inner_edge(loc) ==
  \E x \in { loc[1], loc[2] } : x \in { 1, 2, 19, 20 }

\* The boundary test with its lower half forgotten
out_of_bounds_upper_only(loc) == 20 \in { loc[1], loc[2] }

\* "20 in stone.get_location() or 1 in stone.get_location()"
out_of_bounds(loc) == 20 \in { loc[1], loc[2] } \/ 1 \in { loc[1], loc[2] }

\* Board.move_piece(piece, destination)
move_piece(sl, piece, destination) ==
  LET s1     == pick_up(sl, piece)
      s2     == capture(s1, destination)
      s3     == put_down(s2, piece, destination)
      landed == PieceStones(s3, piece)
      gone   == SelectSeq(landed, LAMBDA s : out_of_bounds(Loc(s)))
  IN  RemoveAll(s3, [k \in DOMAIN gone |-> Loc(gone[k])])

\* The while loop of is_path_clear, from a centre on
RECURSIVE trace_path(_, _, _, _)
trace_path(sl, center, destination, direction) ==
  IF center = destination
  THEN TRUE
  ELSE LET idx    == get_stones_about_center(sl, center)
           stones == [k \in DOMAIN idx |-> sl[idx[k]]]
       IN  IF ~is_empty(stones)
           THEN FALSE
           ELSE trace_path(sl, << center[1] + direction[1], center[2] + direction[2] >>,
                           destination, direction)

\* Board.is_path_clear: the value returned and the collection it leaves
is_path_clear(sl, piece, origin, destination, direction) ==
  LET s1 == pick_up(sl, piece)
  IN  [isClear   |-> trace_path(s1, origin, destination, direction),
       stoneList |-> put_down(s1, piece, origin)]

\* Board.has_ring(player).  get_stone_at_location(cell) is None exactly when
\* no stone of the list has that location, and len(stoneList) is 8 for an
\* empty centre exactly when each of the 8 cells around it has a stone.
has_ring(sl, player) ==
  LET occupied == { Loc(sl[i]) : i \in DOMAIN sl }
  IN  \E row \in (INNER_LOWER_BOUND + 1)..(INNER_UPPER_BOUND - 1),
         col \in (INNER_LOWER_BOUND + 1)..(INNER_UPPER_BOUND - 1) :
        /\ << row, col >> \notin occupied
        /\ \A k \in 1..9 : k # 5 => locationsToSearch(<< row, col >>)[k] \in occupied
        /\ LET idx       == get_stones_about_center(sl, << row, col >>)
               stoneList == [k \in DOMAIN idx |-> sl[idx[k]]]
               anyHidden == \E k \in DOMAIN stoneList : stoneList[k].hidden
               potentialRing == Piece(<< row, col >>, stoneList)
           IN  /\ Len(stoneList) = COUNT_FOR_RING
               /\ ~anyHidden
               /\ ~contains_color(sl, potentialRing, OPPONENT[player])

\* ------------------------------------------------------------------------
\* Move: [origin, destination, currentPlayer, piece, rowDisplacement,
\* colDisplacement, direction]
\* ------------------------------------------------------------------------
\* Move.__determine_direction
determine_direction(rowDisplacement, colDisplacement) ==
  LET colDirection == IF colDisplacement # 0
                      THEN colDisplacement \div abs(colDisplacement) ELSE 0
      rowDirection == IF rowDisplacement # 0
                      THEN rowDisplacement \div abs(rowDisplacement) ELSE 0
  IN  << rowDirection, colDirection >>

\* Move.__init__
Move(originTuple, destinationTuple, piece, currentPlayer) ==
  [origin          |-> originTuple,
   destination     |-> destinationTuple,
   currentPlayer   |-> currentPlayer,
   piece           |-> piece,
   rowDisplacement |-> destinationTuple[1] - originTuple[1],
   colDisplacement |-> destinationTuple[2] - originTuple[2],
   direction       |-> determine_direction(destinationTuple[1] - originTuple[1],
                                           destinationTuple[2] - originTuple[2])]

\* is_direction_valid without the test of the two absolute displacements
is_direction_valid_without_diagonal_test(m) ==
  m.direction \in Range(m.piece.directions)

\* Move.is_direction_valid
is_direction_valid(m) ==
  IF m.rowDisplacement # 0 /\ m.colDisplacement # 0
     /\ abs(m.rowDisplacement) # abs(m.colDisplacement)
  THEN FALSE
  ELSE m.direction \in Range(m.piece.directions)

\* is_distance_valid that takes an unbounded distance for the bounded one
is_distance_valid_always_bounded(m) ==
  ~(abs(m.rowDisplacement) > 3 \/ abs(m.colDisplacement) > 3)

\* Move.is_distance_valid
is_distance_valid(m) ==
  LET maxDistance == m.piece.maxDistance
  IN  IF maxDistance # None
      THEN ~(abs(m.rowDisplacement) > maxDistance[1] \/ abs(m.colDisplacement) > maxDistance[1])
      ELSE TRUE

\* is_legal that looks for the ring before the piece is picked up
is_legal_ring_before_pick_up(sl, m) ==
  LET s1            == pick_up(sl, m.piece)
      legalPiece    == Piece_is_legal(s1, m.piece, m.currentPlayer)
      validDirection == is_direction_valid(m)
      validDistance == is_distance_valid(m)
  IN  IF ~(legalPiece /\ validDirection /\ validDistance)
      THEN [ret |-> FALSE, stoneList |-> s1]
      ELSE LET ringUnbroken == has_ring(sl, m.currentPlayer)
               path == is_path_clear(s1, m.piece, m.origin, m.destination, m.direction)
           IN  IF ~(ringUnbroken /\ path.isClear)
               THEN [ret |-> FALSE, stoneList |-> path.stoneList]
               ELSE [ret |-> TRUE, stoneList |-> put_down(path.stoneList, m.piece, m.origin)]

\* is_legal without the ring gate: has_ring is not consulted
is_legal_without_ring_gate(sl, m) ==
  LET s1            == pick_up(sl, m.piece)
      legalPiece    == Piece_is_legal(s1, m.piece, m.currentPlayer)
      validDirection == is_direction_valid(m)
      validDistance == is_distance_valid(m)
  IN  IF ~(legalPiece /\ validDirection /\ validDistance)
      THEN [ret |-> FALSE, stoneList |-> s1]
      ELSE LET path == is_path_clear(s1, m.piece, m.origin, m.destination, m.direction)
           IN  IF ~path.isClear
               THEN [ret |-> FALSE, stoneList |-> path.stoneList]
               ELSE [ret |-> TRUE, stoneList |-> put_down(path.stoneList, m.piece, m.origin)]

\* Move.is_legal: the value returned and the collection it leaves
is_legal(sl, m) ==
  LET s1            == pick_up(sl, m.piece)
      legalPiece    == Piece_is_legal(s1, m.piece, m.currentPlayer)
      validDirection == is_direction_valid(m)
      validDistance == is_distance_valid(m)
  IN  IF ~(legalPiece /\ validDirection /\ validDistance)
      THEN [ret |-> FALSE, stoneList |-> s1]
      ELSE LET ringUnbroken == has_ring(s1, m.currentPlayer)
               path == is_path_clear(s1, m.piece, m.origin, m.destination, m.direction)
           IN  IF ~(ringUnbroken /\ path.isClear)
               THEN [ret |-> FALSE, stoneList |-> path.stoneList]
               ELSE [ret |-> TRUE, stoneList |-> put_down(path.stoneList, m.piece, m.origin)]

\* ------------------------------------------------------------------------
\* GessGame
\* ------------------------------------------------------------------------
\* A coordinate string is the sequence of its characters: 'c15' is <<"c","1","5">>.
UpperCase ==
  << "A", "B", "C", "D", "E", "F", "G", "H", "I", "J", "K", "L", "M",
     "N", "O", "P", "Q", "R", "S", "T", "U", "V", "W", "X", "Y", "Z" >>

LowerCase ==
  << "a", "b", "c", "d", "e", "f", "g", "h", "i", "j", "k", "l", "m",
     "n", "o", "p", "q", "r", "s", "t", "u", "v", "w", "x", "y", "z" >>

Digits == << "0", "1", "2", "3", "4", "5", "6", "7", "8", "9" >>

\* str.lower() of one character
lower(ch) ==
  IF \E k \in DOMAIN UpperCase : UpperCase[k] = ch
  THEN LowerCase[CHOOSE k \in DOMAIN UpperCase : UpperCase[k] = ch]
  ELSE ch

IsDigit(ch) == \E k \in DOMAIN Digits : Digits[k] = ch

DigitValue(ch) == (CHOOSE k \in DOMAIN Digits : Digits[k] = ch) - 1

\* The value of a string of decimal digits
RECURSIVE digits_value(_)
digits_value(s) ==
  IF s = << >> THEN 0 ELSE 10 * digits_value(SubSeq(s, 1, Len(s) - 1)) + DigitValue(s[Len(s)])

\* The digits of a numeral, which may begin with one sign
unsigned(s) == IF s # << >> /\ s[1] \in { "+", "-" } THEN Tail(s) ELSE s

\* int(s) for a string of signs, digits and letters
int(s) ==
  IF s # << >> /\ s[1] = "-" THEN 0 - digits_value(unsigned(s)) ELSE digits_value(unsigned(s))

\* int(s) raises ValueError: after an optional sign, s is empty or has a
\* character that is not a digit
int_raises(s) == unsigned(s) = << >> \/ \E k \in DOMAIN unsigned(s) : ~IsDigit(unsigned(s)[k])

\* COL_LETTERS[INNER_LOWER_BOUND:INNER_UPPER_BOUND+1], Python indexes from 0
InnerLetters == { COL_LETTERS[i + 1] : i \in INNER_LOWER_BOUND..INNER_UPPER_BOUND }

\* The validation with the bounds of the outer board (columns a..t, rows 1..20)
\* in place of those of the inner board
is_input_coordinate_valid_outer_bounds(coordinate) ==
  IF lower(coordinate[1]) \notin { COL_LETTERS[i + 1] : i \in OUTER_LOWER_BOUND..OUTER_UPPER_BOUND }
  THEN FALSE
  ELSE IF int_raises(Tail(coordinate))
       THEN FALSE
       ELSE LET rowIndex == int(Tail(coordinate))
            IN  ~(rowIndex < OUTER_LOWER_BOUND \/ rowIndex > OUTER_UPPER_BOUND)

\* GessGame.is_input_coordinate_valid, for a non-empty string
is_input_coordinate_valid(coordinate) ==
  IF lower(coordinate[1]) \notin InnerLetters
  THEN FALSE
  ELSE IF int_raises(Tail(coordinate))
       THEN FALSE
       ELSE LET rowIndex == int(Tail(coordinate))
            IN  ~(rowIndex < INNER_LOWER_BOUND \/ rowIndex > INNER_UPPER_BOUND)

\* What __convert_to_numeric_tuple gives besides a tuple: False, or a ValueError
\* raised by COL_LETTERS.index for a letter that is not in the list
False == << >>

ValueError == << -1 >>

\* GessGame.__convert_to_numeric_tuple
convert_to_numeric_tuple(coordinate) ==
  IF ~is_input_coordinate_valid(coordinate)
  THEN False
  ELSE IF \E i \in DOMAIN COL_LETTERS : COL_LETTERS[i] = coordinate[1]
       THEN << int(Tail(coordinate)),
               (CHOOSE i \in DOMAIN COL_LETTERS : COL_LETTERS[i] = coordinate[1]) - 1 >>
       ELSE ValueError

\* Line 703 compares the bound method get_game_state (not its result) with a
\* string, which is never equal; is_game_over then returns False.
is_game_over(state) == IF method_object_equals("UNFINISHED") THEN TRUE ELSE FALSE

\* GessGame.assign_victory
assign_victory(state, victor) ==
  IF victor = "BLACK" THEN "BLACK_WON"
  ELSE IF victor = "WHITE" THEN "WHITE_WON"
  ELSE state

\* check_victory that looks for the ring of the player who moved
check_victory_own_ring(sl, player) == ~has_ring(sl, player)

\* GessGame.check_victory
check_victory(sl, player) == ~has_ring(sl, OPPONENT[player])

\* ------------------------------------------------------------------------
\* Bounds of the exploration
\* ------------------------------------------------------------------------
\* Number of calls made to the game (make_move, resign_game)
MaxCalls == 4

\* Number of calls made to the Board/Move interface directly
MaxDirectCalls == 4

\* Coordinate pairs handed to make_move
MoveInputs ==
  { << <<"c","3">>, <<"e","5">> >>,       \* not a legal direction of the piece
    << <<"e","3">>, <<"d","3">> >>,       \* one step west
    << <<"c","1","5">>, <<"c","1","2">> >>, \* white stone three rows down
    << <<"c","3">>, <<"c","7">> >>,       \* own stone on the route
    << <<"l","8">>, <<"l","5">> >>,       \* onto the mover's own ring
    << <<"c","3">>, <<"c","2">> >>,       \* one stone lands on row 1
    << <<"c","3">>, <<"c","1">> >>,       \* destination outside the inner board
    << <<"C","3">>, <<"c","4">> >>,       \* upper-case column letter
    << <<"l","1","8">>, <<"l","1","7">> >> } \* the piece is WHITE's ring

\* (origin, destination) pairs handed to Board.create_piece and Move directly
DirectInputs ==
  { << <<3, 3>>, <<2, 3>> >>,
    << <<7, 3>>, <<8, 3>> >>,
    << <<3, 11>>, <<4, 11>> >>,
    << <<3, 3>>, <<5, 5>> >>,
    << <<6, 3>>, <<10, 3>> >>,
    << <<3, 3>>, <<7, 3>> >>,
    << <<3, 5>>, <<3, 4>> >>,
    << <<10, 10>>, <<11, 10>> >>,   \* no stone about the origin
    << <<16, 8>>, <<17, 8>> >>,     \* stones on the row below the centre only
    << <<3, 6>>, <<5, 14>> >>,      \* both components nonzero and unequal
    << <<5, 14>>, <<2, 11>> >>,     \* three steps on a diagonal
    << <<17, 2>>, <<9, 2>> >>,
    << <<18, 3>>, <<10, 3>> >>,     \* own stone of row 14 on the route
    << <<3, 3>>, <<3, 3>> >>,       \* origin and destination are the same cell
    << <<0, 3>>, <<1, 3>> >> }      \* origin outside the grid

\* ------------------------------------------------------------------------
\* State
\* ------------------------------------------------------------------------
VARIABLES
  stoneList,      \* Board._allStones._stoneList
  gameState,      \* GessGame._gameState
  currentPlayer,  \* GessGame._currentPlayer
  move,           \* the Move object (with its Piece) a direct caller holds, or NoMove
  last,           \* the last call made: its name, what it returned, its Move object
  probe,          \* the is_legal calls made on the held Move object so far
  calls,          \* number of calls made
  frame           \* the call of Board.is_path_clear in progress, or NoFrame

vars == << stoneList, gameState, currentPlayer, move, last, probe, calls, frame >>

NoMove == [origin |-> << >>]

NoProbe == [n |-> 0, ret |-> FALSE, before |-> << >>]

NoFrame == [pc |-> "idle"]

Init ==
  /\ stoneList = populate
  /\ gameState = "UNFINISHED"
  /\ currentPlayer = "BLACK"
  /\ move = NoMove
  /\ last = [op |-> "init", ret |-> FALSE, raised |-> FALSE, move |-> NoMove]
  /\ probe = NoProbe
  /\ calls = 0
  /\ frame = NoFrame

\* ------------------------------------------------------------------------
\* GessGame.make_move(currentCenter, newCenter)
\* ------------------------------------------------------------------------
MakeMove(currentCenter, newCenter) ==
  /\ calls < MaxCalls
  /\ calls' = calls + 1
  /\ UNCHANGED << move, probe, frame >>
  /\ LET origin      == convert_to_numeric_tuple(currentCenter)
         destination == convert_to_numeric_tuple(newCenter)
     IN  IF is_game_over(gameState)
         THEN /\ last' = [op |-> "make_move", ret |-> FALSE, raised |-> FALSE, move |-> NoMove]
              /\ UNCHANGED << stoneList, gameState, currentPlayer >>
         ELSE IF origin = ValueError \/ destination = ValueError
         THEN /\ last' = [op |-> "make_move", ret |-> FALSE, raised |-> TRUE, move |-> NoMove]
              /\ UNCHANGED << stoneList, gameState, currentPlayer >>
         ELSE IF origin = False \/ destination = False
         THEN /\ last' = [op |-> "make_move", ret |-> FALSE, raised |-> FALSE, move |-> NoMove]
              /\ UNCHANGED << stoneList, gameState, currentPlayer >>
         ELSE LET piece == create_piece(stoneList, origin)
                  m     == Move(origin, destination, piece, currentPlayer)
                  legal == is_legal(stoneList, m)
              IN  IF ~legal.ret
                  THEN /\ last' = [op |-> "make_move", ret |-> FALSE, raised |-> FALSE, move |-> m]
                       /\ stoneList' = legal.stoneList
                       /\ UNCHANGED << gameState, currentPlayer >>
                  ELSE LET moved == move_piece(legal.stoneList, piece, destination)
                       IN  /\ stoneList' = moved
                           /\ gameState' = IF check_victory(moved, currentPlayer)
                                           THEN assign_victory(gameState, currentPlayer)
                                           ELSE gameState
                           /\ currentPlayer' = OPPONENT[currentPlayer]
                           /\ last' = [op |-> "make_move", ret |-> TRUE, raised |-> FALSE, move |-> m]

\* resign_game that hands the turn to the opponent as well
ResignGame_passing_turn ==
  /\ calls < MaxCalls
  /\ calls' = calls + 1
  /\ gameState' = assign_victory(gameState, OPPONENT[currentPlayer])
  /\ currentPlayer' = OPPONENT[currentPlayer]
  /\ last' = [op |-> "resign_game", ret |-> FALSE, raised |-> FALSE, move |-> NoMove]
  /\ UNCHANGED << stoneList, move, probe, frame >>

\* resign_game that gives the win to the player who resigns
ResignGame_for_current_player ==
  /\ calls < MaxCalls
  /\ calls' = calls + 1
  /\ gameState' = assign_victory(gameState, currentPlayer)
  /\ last' = [op |-> "resign_game", ret |-> FALSE, raised |-> FALSE, move |-> NoMove]
  /\ UNCHANGED << stoneList, currentPlayer, move, probe, frame >>

\* ------------------------------------------------------------------------
\* GessGame.resign_game()
\* ------------------------------------------------------------------------
ResignGame ==
  /\ frame = NoFrame
  /\ calls < MaxCalls
  /\ calls' = calls + 1
  /\ gameState' = assign_victory(gameState, OPPONENT[currentPlayer])
  /\ last' = [op |-> "resign_game", ret |-> FALSE, raised |-> FALSE, move |-> NoMove]
  /\ UNCHANGED << stoneList, currentPlayer, move, probe, frame >>

Next ==
  \/ \E in \in MoveInputs : MakeMove(in[1], in[2])
  \/ ResignGame

Spec == Init /\ [][Next]_vars

\* ------------------------------------------------------------------------
\* The Board/Move interface used directly, as make_move uses it: a caller
\* builds a Piece and a Move, validates with is_legal (as often as it likes)
\* and commits with move_piece.
\* ------------------------------------------------------------------------
\* Board.create_piece(origin) and Move(origin, destination, piece, player, board)
NewMove(origin, destination, player) ==
  /\ frame = NoFrame
  /\ calls < MaxDirectCalls
  /\ calls' = calls + 1
  /\ move' = Move(origin, destination, create_piece(stoneList, origin), player)
  /\ probe' = NoProbe
  /\ last' = [op |-> "Move", ret |-> FALSE, raised |-> FALSE, move |-> move']
  /\ UNCHANGED << stoneList, gameState, currentPlayer, frame >>

\* Move.is_legal() on the held Move object
IsLegal ==
  /\ frame = NoFrame
  /\ calls < MaxDirectCalls
  /\ move # NoMove
  /\ calls' = calls + 1
  /\ LET legal == is_legal(stoneList, move)
     IN  /\ stoneList' = legal.stoneList
         /\ last' = [op |-> "is_legal", ret |-> legal.ret, raised |-> FALSE, move |-> move]
         /\ probe' = IF probe.n = 0
                     THEN [n |-> 1, ret |-> legal.ret, before |-> stoneList]
                     ELSE [probe EXCEPT !.n = probe.n + 1]
  /\ UNCHANGED << gameState, currentPlayer, move, frame >>

\* Board.move_piece(piece, destination) with the piece and destination of the
\* held Move object, which is dropped afterwards
MovePiece ==
  /\ frame = NoFrame
  /\ calls < MaxDirectCalls
  /\ move # NoMove
  /\ calls' = calls + 1
  /\ stoneList' = move_piece(stoneList, move.piece, move.destination)
  /\ last' = [op |-> "move_piece", ret |-> FALSE, raised |-> FALSE, move |-> move]
  /\ move' = NoMove
  /\ probe' = NoProbe
  /\ UNCHANGED << gameState, currentPlayer, frame >>

NextDirect ==
  \/ \E in \in DirectInputs, player \in {"WHITE", "BLACK"} : NewMove(in[1], in[2], player)
  \/ IsLegal
  \/ MovePiece

SpecDirect == Init /\ [][NextDirect]_vars

\* ------------------------------------------------------------------------
\* Board.is_path_clear called directly with the piece, origin and destination
\* of the held Move object, one step per iteration of its while loop.
\* ------------------------------------------------------------------------
\* Directions handed to is_path_clear: the direction of the held Move object
\* where a whole number of steps leads from origin to destination, as is_legal
\* hands it after the direction gate, and (0, 0).  Directions that walk away
\* from the destination are left out: the centre then grows without bound.
PathDirections(m) ==
  { d \in { m.direction, << 0, 0 >> } :
      \/ d = << 0, 0 >>
      \/ \E n \in 0..BOARD_SIZE :
           << m.origin[1] + n * d[1], m.origin[2] + n * d[2] >> = m.destination }

\* Entry of is_path_clear: piece.pick_up(), isClear = True, center = origin
PathCall(direction) ==
  /\ frame = NoFrame
  /\ calls < MaxDirectCalls
  /\ move # NoMove
  /\ direction \in PathDirections(move)
  /\ calls' = calls + 1
  /\ stoneList' = pick_up(stoneList, move.piece)
  /\ frame' = [pc |-> "loop", caller |-> "direct", direction |-> direction,
               center |-> move.origin, isClear |-> TRUE, iter |-> 0,
               before |-> stoneList, ringUnbroken |-> FALSE]
  /\ UNCHANGED << gameState, currentPlayer, move, last, probe >>

\* One iteration of "while center != destination and isClear == True"; iter is
\* the parity of the number of iterations made
PathIterate ==
  /\ frame.pc = "loop"
  /\ frame.center # move.destination /\ frame.isClear
  /\ LET idx    == get_stones_about_center(stoneList, frame.center)
         stones == [k \in DOMAIN idx |-> stoneList[idx[k]]]
     IN  frame' = [frame EXCEPT
                     !.isClear = IF ~is_empty(stones) THEN FALSE ELSE @,
                     !.center  = << @[1] + frame.direction[1], @[2] + frame.direction[2] >>,
                     !.iter    = 1 - @]
  /\ UNCHANGED << stoneList, gameState, currentPlayer, move, last, probe, calls >>

\* is_path_clear without the put_down that follows the loop
PathReturn_without_put_down ==
  /\ frame.pc = "loop"
  /\ frame.caller = "direct"
  /\ ~(frame.center # move.destination /\ frame.isClear)
  /\ last' = [op |-> "is_path_clear", ret |-> frame.isClear, raised |-> FALSE, move |-> move]
  /\ frame' = NoFrame
  /\ UNCHANGED << stoneList, gameState, currentPlayer, move, probe, calls >>

\* The loop is left: piece.put_down(origin), return isClear
PathReturn ==
  /\ frame.pc = "loop"
  /\ frame.caller = "direct"
  /\ ~(frame.center # move.destination /\ frame.isClear)
  /\ stoneList' = put_down(stoneList, move.piece, move.origin)
  /\ last' = [op |-> "is_path_clear", ret |-> frame.isClear, raised |-> FALSE, move |-> move]
  /\ frame' = NoFrame
  /\ UNCHANGED << gameState, currentPlayer, move, probe, calls >>

NextBoard ==
  \/ NextDirect
  \/ \E direction \in (-1..1) \X (-1..1) : PathCall(direction)
  \/ PathIterate
  \/ PathReturn

SpecBoard == Init /\ [][NextBoard]_vars

\* Every iteration that can be made is made, and a loop that is left returns
SpecBoardFair == SpecBoard /\ WF_vars(PathIterate) /\ WF_vars(PathReturn)

\* ------------------------------------------------------------------------
\* GessGame.make_move with the while loop of Board.is_path_clear made one
\* iteration per step: the call runs up to the entry of the loop, the loop
\* iterates, and the return runs from the exit of the loop to the end of
\* make_move.
\* ------------------------------------------------------------------------
\* Coordinate pairs handed to make_move here: those of MoveInputs and a move
\* of two rows and three columns by a piece that has the diagonal direction
WalkInputs ==
  MoveInputs \cup { << <<"d","3">>, <<"g","5">> >> }

\* make_move from its entry to the entry of the loop of is_path_clear, or to
\* its return where it returns before
MakeMoveCall(currentCenter, newCenter) ==
  /\ frame = NoFrame
  /\ calls < MaxCalls
  /\ calls' = calls + 1
  /\ UNCHANGED << gameState, currentPlayer, probe >>
  /\ LET origin      == convert_to_numeric_tuple(currentCenter)
         destination == convert_to_numeric_tuple(newCenter)
     IN  IF is_game_over(gameState)
         THEN /\ last' = [op |-> "make_move", ret |-> FALSE, raised |-> FALSE, move |-> NoMove]
              /\ UNCHANGED << stoneList, move, frame >>
         ELSE IF origin = ValueError \/ destination = ValueError
         THEN /\ last' = [op |-> "make_move", ret |-> FALSE, raised |-> TRUE, move |-> NoMove]
              /\ UNCHANGED << stoneList, move, frame >>
         ELSE IF origin = False \/ destination = False
         THEN /\ last' = [op |-> "make_move", ret |-> FALSE, raised |-> FALSE, move |-> NoMove]
              /\ UNCHANGED << stoneList, move, frame >>
         ELSE LET piece == create_piece(stoneList, origin)
                  m     == Move(origin, destination, piece, currentPlayer)
                  s1    == pick_up(stoneList, piece)
              IN  IF ~(/\ Piece_is_legal(s1, piece, currentPlayer)
                       /\ is_direction_valid(m)
                       /\ is_distance_valid(m))
                  THEN /\ last' = [op |-> "make_move", ret |-> FALSE, raised |-> FALSE,
                                   move |-> m]
                       /\ stoneList' = s1
                       /\ UNCHANGED << move, frame >>
                  ELSE /\ stoneList' = pick_up(s1, piece)
                       /\ move' = m
                       /\ frame' = [pc |-> "loop", caller |-> "is_legal",
                                    direction |-> m.direction, center |-> origin,
                                    isClear |-> TRUE, iter |-> 0, before |-> stoneList,
                                    ringUnbroken |-> has_ring(s1, currentPlayer)]
                       /\ UNCHANGED last

\* make_move from the exit of the loop of is_path_clear to its return
MakeMoveReturn ==
  /\ frame.pc = "loop"
  /\ frame.caller = "is_legal"
  /\ ~(frame.center # move.destination /\ frame.isClear)
  /\ \E s2 \in { put_down(stoneList, move.piece, move.origin) } :
       IF ~(frame.ringUnbroken /\ frame.isClear)
       THEN /\ stoneList' = s2
            /\ last' = [op |-> "make_move", ret |-> FALSE, raised |-> FALSE, move |-> move]
            /\ UNCHANGED << gameState, currentPlayer >>
       ELSE \E moved \in { move_piece(put_down(s2, move.piece, move.origin),
                                       move.piece, move.destination) } :
              \E victory \in { check_victory(moved, currentPlayer) } :
                /\ stoneList' = moved
                /\ gameState' = IF victory
                                THEN assign_victory(gameState, currentPlayer)
                                ELSE gameState
                /\ currentPlayer' = OPPONENT[currentPlayer]
                /\ last' = [op |-> "make_move", ret |-> TRUE, raised |-> FALSE,
                            move |-> move]
  /\ move' = NoMove
  /\ frame' = NoFrame
  /\ UNCHANGED << probe, calls >>

NextGame ==
  \/ \E in \in WalkInputs : MakeMoveCall(in[1], in[2])
  \/ PathIterate
  \/ MakeMoveReturn
  \/ ResignGame

SpecGame == Init /\ [][NextGame]_vars

\* The step that leaves the loop of is_path_clear inside make_move, told by
\* the activation alone: in SpecGame it is the step MakeMoveReturn
LoopLeft ==
  /\ frame.pc = "loop"
  /\ frame.caller = "is_legal"
  /\ ~(frame.center # move.destination /\ frame.isClear)
  /\ frame' = NoFrame

\* The step that makes one iteration of the loop, told by the activation
\* alone: it is the step PathIterate
LoopIterated ==
  /\ frame.pc = "loop"
  /\ frame.center # move.destination /\ frame.isClear
  /\ \E clear \in BOOLEAN :
       frame' = [frame EXCEPT
                   !.isClear = clear,
                   !.center  = << @[1] + frame.direction[1], @[2] + frame.direction[2] >>,
                   !.iter    = 1 - @]

\* Python runs the call to its end: an iteration that can be made is made, and
\* a loop that is left returns
SpecGameFair == SpecGame /\ WF_frame(LoopIterated) /\ WF_frame(LoopLeft)

\* ------------------------------------------------------------------------
\* Properties
\* ------------------------------------------------------------------------
\* The last step was a call of the named operation
Called(op) == last'.op = op /\ calls' = calls + 1

\* The cells of the 3x3 footprint of a centre
Footprint(center) == Range(locationsToSearch(center))

\* C1: after any sequence of make_move calls, accepted or rejected, no two
\* stones that are not hidden lie on the same cell.
C1_NoTwoStonesShareCell ==
  \A i, j \in DOMAIN stoneList :
    (i # j /\ ~stoneList[i].hidden /\ ~stoneList[j].hidden)
      => Loc(stoneList[i]) # Loc(stoneList[j])

\* C2: a call of Move.is_legal that returns False leaves the stone collection
\* exactly as it was: same stones, same locations, owners and hidden flags.
C2_RejectedLeavesCollection ==
  [][(Called("is_legal") /\ ~last'.ret) => stoneList' = stoneList]_vars

\* C3: after a make_move that returned True, the player who moved has a ring.
C3_MoverKeepsRing ==
  (last.op = "make_move" /\ last.ret) => has_ring(stoneList, last.move.currentPlayer)

\* The five gates of a move, each evaluated on the collection as it is before
\* the call: piece legality, direction, distance, ring survival with the piece
\* lifted, path clarity.
FiveGates(sl, m) ==
  /\ Piece_is_legal(sl, m.piece, m.currentPlayer)
  /\ is_direction_valid(m)
  /\ is_distance_valid(m)
  /\ has_ring(pick_up(sl, m.piece), m.currentPlayer)
  /\ is_path_clear(sl, m.piece, m.origin, m.destination, m.direction).isClear

\* C4: Move.is_legal returns True exactly when the five gates all hold.
C4_LegalIffFiveGates ==
  [][Called("is_legal") => (last'.ret = FiveGates(stoneList, move))]_vars

\* A move passed all five gates and was answered True.
C4_Witness ==
  /\ last.op = "is_legal"
  /\ last.ret
  /\ is_direction_valid(last.move)
  /\ is_distance_valid(last.move)

\* C5: a call of Move.is_legal that returns True has committed nothing: no
\* stone was removed or relocated, every stone of the piece is revealed, and
\* the other stones are as they were.
C5_LegalCommitsNothing ==
  [][(Called("is_legal") /\ last'.ret) =>
       /\ Len(stoneList') = Len(stoneList)
       /\ \A i \in DOMAIN stoneList :
            /\ stoneList'[i].id = stoneList[i].id
            /\ Loc(stoneList'[i]) = Loc(stoneList[i])
            /\ stoneList'[i].owner = stoneList[i].owner
            /\ IF stoneList[i].id \in Range(move.piece.stoneList)
               THEN ~stoneList'[i].hidden
               ELSE stoneList'[i].hidden = stoneList[i].hidden]_vars

\* is_legal answered True for a piece of several stones, all of them revealed
\* and inside the footprint of the origin.
C5_Witness ==
  /\ last.op = "is_legal"
  /\ last.ret
  /\ Len(last.move.piece.stoneList) > 1
  /\ \A k \in DOMAIN last.move.piece.stoneList :
       LET s == StoneById(stoneList, last.move.piece.stoneList[k])
       IN  ~s.hidden /\ Loc(s) \in Footprint(last.move.origin)

\* What the queries of the collection answer: for every centre of the grid the
\* stones found about it (which stone, where, whose, in scan order) and
\* whether that footprint is empty of stones that are not hidden.  The stone at
\* a cell is the footprint's entry for that cell.
Queries(sl) ==
  [center \in (OUTER_LOWER_BOUND..OUTER_UPPER_BOUND) \X (OUTER_LOWER_BOUND..OUTER_UPPER_BOUND) |->
     LET idx    == get_stones_about_center(sl, center)
         stones == [k \in DOMAIN idx |-> sl[idx[k]]]
     IN  [found |-> [k \in DOMAIN stones |-> << stones[k].id, Loc(stones[k]), stones[k].owner >>],
          empty |-> is_empty(stones)]]

\* C6: two calls of is_legal in succession on the same Move object return the
\* same boolean, and the queries of the collection answer after the second
\* call what they answered before the first.
C6_TwiceSameAnswers ==
  (last.op = "is_legal" /\ probe.n = 2) =>
     /\ last.ret = probe.ret
     /\ Queries(stoneList) = Queries(probe.before)

\* C7: after any sequence of make_move calls no stone has row or column 0 or 21.
C7_NoStoneOffGrid ==
  \A i \in DOMAIN stoneList :
    /\ stoneList[i].row \notin { OUTER_LOWER_BOUND - 1, OUTER_UPPER_BOUND + 1 }
    /\ stoneList[i].col \notin { OUTER_LOWER_BOUND - 1, OUTER_UPPER_BOUND + 1 }

\* An accepted make_move pushed a stone of the moved piece over the edge: the
\* stone is gone from the collection.
C7_Witness ==
  /\ last.op = "make_move"
  /\ last.ret
  /\ \E k \in DOMAIN last.move.piece.stoneList :
       last.move.piece.stoneList[k] \notin Ids(stoneList)

\* C8: move_piece removes exactly the stones of the piece whose new row or
\* column is 1 or 20; every other stone of the piece stays in the collection,
\* revealed, at its old location translated by (destination - origin).
C8_BoundaryStonesRemoved ==
  [][Called("move_piece") =>
       \A i \in DOMAIN stoneList :
         stoneList[i].id \in Range(move.piece.stoneList) =>
           LET displ  == get_displacement(move.origin, move.destination)
               newLoc == << stoneList[i].row + displ[1], stoneList[i].col + displ[2] >>
           IN  IF newLoc[1] \in {1, 20} \/ newLoc[2] \in {1, 20}
               THEN stoneList[i].id \notin Ids(stoneList')
               ELSE /\ stoneList[i].id \in Ids(stoneList')
                    /\ ~StoneById(stoneList', stoneList[i].id).hidden
                    /\ Loc(StoneById(stoneList', stoneList[i].id)) = newLoc]_vars

\* move_piece has moved a piece of which one stone left the collection at the
\* boundary and another one stands, revealed, in the destination footprint.
C8_Witness ==
  /\ last.op = "move_piece"
  /\ \E k \in DOMAIN last.move.piece.stoneList :
       last.move.piece.stoneList[k] \notin Ids(stoneList)
  /\ \E i \in DOMAIN stoneList :
       /\ stoneList[i].id \in Range(last.move.piece.stoneList)
       /\ ~stoneList[i].hidden
       /\ Loc(stoneList[i]) \in Footprint(last.move.destination)

\* C9: after an accepted move is committed, every opponent stone that was in
\* the destination footprint is gone, and every stone in the destination
\* footprint is one of the moved piece's own stones.
C9_DestinationHoldsOnlyMover ==
  [][(Called("make_move") /\ last'.ret) =>
       LET m == last'.move
       IN  /\ \A i \in DOMAIN stoneList :
                (/\ Loc(stoneList[i]) \in Footprint(m.destination)
                 /\ stoneList[i].owner = OPPONENT[m.currentPlayer])
                  => stoneList[i].id \notin Ids(stoneList')
           /\ \A j \in DOMAIN stoneList' :
                Loc(stoneList'[j]) \in Footprint(m.destination)
                  => stoneList'[j].id \in Range(m.piece.stoneList)]_vars

\* C10: a piece whose footprint holds exactly one stone, on the centre cell,
\* is not legal for the owner of that stone.
C10_SingleCentreStoneIllegal ==
  (/\ move # NoMove
   /\ Len(move.piece.stoneList) = 1
   /\ Loc(StoneById(stoneList, move.piece.stoneList[1])) = move.piece.center)
    => ~Piece_is_legal(stoneList, move.piece,
                       StoneById(stoneList, move.piece.stoneList[1]).owner)

\* C11: Piece.is_legal(player) returns False when the piece holds a stone of
\* the opponent and when it holds no stone at all, and True when it holds only
\* stones of the player with at least one of them off the centre cell; hidden
\* stones count like the others.
C11_PieceLegalByOwners ==
  move # NoMove =>
    \A player \in {"WHITE", "BLACK"} :
      LET stones == PieceStones(stoneList, move.piece)
          legal  == Piece_is_legal(stoneList, move.piece, player)
      IN  /\ (\E k \in DOMAIN stones : stones[k].owner = OPPONENT[player]) => ~legal
          /\ stones = << >> => ~legal
          /\ (/\ stones # << >>
              /\ \A k \in DOMAIN stones : stones[k].owner = player
              /\ \E k \in DOMAIN stones : Loc(stones[k]) # move.piece.center) => legal

\* A held piece of BLACK stones only, one of them off the centre and one of
\* them hidden, is legal for BLACK and not for WHITE.
C11_Witness ==
  /\ move # NoMove
  /\ LET stones == PieceStones(stoneList, move.piece)
     IN  /\ \A k \in DOMAIN stones : stones[k].owner = "BLACK"
         /\ \E k \in DOMAIN stones : Loc(stones[k]) # move.piece.center
         /\ \E k \in DOMAIN stones : stones[k].hidden
  /\ Piece_is_legal(stoneList, move.piece, "BLACK")
  /\ ~Piece_is_legal(stoneList, move.piece, "WHITE")

\* C12: the maximum distance of a piece is None exactly when one of its stones
\* lies on its centre cell, and 3 otherwise.
C12_MaxDistanceByCentreStone ==
  move # NoMove =>
    LET onCentre == \E i \in DOMAIN stoneList :
                      /\ stoneList[i].id \in Range(move.piece.stoneList)
                      /\ Loc(stoneList[i]) = move.piece.center
    IN  /\ (move.piece.maxDistance = None) <=> onCentre
        /\ ~onCentre => move.piece.maxDistance = << 3 >>

\* A held piece with a stone but none on its centre has maximum distance 3.
C12_Witness ==
  /\ move # NoMove
  /\ move.piece.stoneList # << >>
  /\ \A k \in DOMAIN move.piece.stoneList :
       Loc(StoneById(stoneList, move.piece.stoneList[k])) # move.piece.center
  /\ move.piece.maxDistance = << 3 >>

\* C13: the legal directions of a piece are the offsets (stone - centre) of its
\* stones, without (0, 0) and without duplicates, in the scan order of the
\* footprint; a footprint with stones at the offsets (1,-1), (1,0), (1,1) only
\* gives exactly [(1,-1), (1,0), (1,1)].
C13_DirectionsAreOffsets ==
  move # NoMove =>
    LET piece     == move.piece
        stones    == PieceStones(stoneList, piece)
        offsetOf(s) == << s.row - piece.center[1], s.col - piece.center[2] >>
        held      == { offsetOf(stones[k]) : k \in DOMAIN stones }
        scan      == [k \in 1..9 |-> << ((k - 1) \div 3) - 1, ((k - 1) % 3) - 1 >>]
        isDirection(off) == off \in held /\ off # << 0, 0 >>
    IN  /\ piece.directions = SelectSeq(scan, isDirection)
        /\ held = { << 1, -1 >>, << 1, 0 >>, << 1, 1 >> }
             => piece.directions = << << 1, -1 >>, << 1, 0 >>, << 1, 1 >> >>

\* The held piece has its stones on the row below its centre and nowhere else.
C13_Witness ==
  /\ move # NoMove
  /\ Len(move.piece.stoneList) = 3
  /\ \A k \in DOMAIN move.piece.stoneList :
       StoneById(stoneList, move.piece.stoneList[k]).row = move.piece.center[1] + 1
  /\ move.piece.directions = << << 1, -1 >>, << 1, 0 >>, << 1, 1 >> >>

\* C14: is_direction_valid returns True exactly when the pair of signs of the
\* displacement is one of the piece's legal directions and, if both components
\* of the displacement are nonzero, their absolute values are equal.
C14_DirectionValidIffSignPair ==
  move # NoMove =>
    LET d       == get_displacement(move.origin, move.destination)
        sign(x) == IF x > 0 THEN 1 ELSE IF x < 0 THEN -1 ELSE 0
    IN  is_direction_valid(move) <=>
          /\ << sign(d[1]), sign(d[2]) >> \in Range(move.piece.directions)
          /\ (d[1] # 0 /\ d[2] # 0) => abs(d[1]) = abs(d[2])

\* The held move goes two rows and eight columns away; the piece has a stone
\* on that side, and the direction is not valid.
C14_Witness ==
  /\ move # NoMove
  /\ move.rowDisplacement # 0
  /\ move.colDisplacement # 0
  /\ abs(move.rowDisplacement) # abs(move.colDisplacement)
  /\ move.direction \in Range(move.piece.directions)
  /\ ~is_direction_valid(move)

\* C15: is_distance_valid returns True for every displacement when the maximum
\* distance is unbounded, and for maximum distance 3 exactly when neither the
\* row nor the column displacement exceeds 3 in absolute value.
C15_DistanceValidByMaximum ==
  move # NoMove =>
    LET d == get_displacement(move.origin, move.destination)
    IN  /\ move.piece.maxDistance = None => is_distance_valid(move)
        /\ move.piece.maxDistance = << 3 >> =>
             (is_distance_valid(move) <=> (abs(d[1]) <= 3 /\ abs(d[2]) <= 3))

\* The held move is more than 3 cells long, its piece has a centre stone, and
\* the distance is valid.
C15_Witness ==
  /\ move # NoMove
  /\ move.piece.maxDistance = None
  /\ abs(move.rowDisplacement) > 3
  /\ is_distance_valid(move)

\* The centres origin + k * direction, k = 0 .. n - 1, of a move of n steps
\* along one of the 8 directions
RouteCentres(m) ==
  LET n == IF abs(m.rowDisplacement) > abs(m.colDisplacement)
           THEN abs(m.rowDisplacement) ELSE abs(m.colDisplacement)
  IN  { << m.origin[1] + k * m.direction[1], m.origin[2] + k * m.direction[2] >> :
          k \in 0..(n - 1) }

\* The displacement of the move is a whole number of steps of its direction
AlongDirection(m) ==
  \/ m.rowDisplacement = 0
  \/ m.colDisplacement = 0
  \/ abs(m.rowDisplacement) = abs(m.colDisplacement)

\* C16: is_path_clear(piece, origin, destination, direction) returns True
\* exactly when, with the stones of the piece hidden, no footprint centred on
\* origin + k * direction, k = 0 .. n - 1, contains a stone that is not hidden;
\* the destination footprint is not examined.  Stated of the piece and
\* endpoints of the last rejected make_move, on the collection it left.
C16_PathClearIffRouteEmpty ==
  (/\ last.op = "make_move"
   /\ last.move # NoMove
   /\ ~last.ret
   /\ AlongDirection(last.move)) =>
    LET m      == last.move
        lifted == pick_up(stoneList, m.piece)
    IN  is_path_clear(stoneList, m.piece, m.origin, m.destination, m.direction).isClear
          <=> \A c \in RouteCentres(m) : \A i \in DOMAIN lifted :
                Loc(lifted[i]) \in Footprint(c) => lifted[i].hidden

C18_RingIffFullBlock ==
  \A player \in {"WHITE", "BLACK"} :
    has_ring(stoneList, player) <=>
      \E row \in 3..18, col \in 3..18 :
        LET held == { i \in DOMAIN stoneList :
                        /\ stoneList[i].row - row \in -1..1
                        /\ stoneList[i].col - col \in -1..1 }
        IN  /\ \A i \in held : Loc(stoneList[i]) # << row, col >>
            /\ Cardinality(held) = 8
            /\ \A i \in held : /\ ~stoneList[i].hidden
                               /\ stoneList[i].owner # OPPONENT[player]

\* C19: on the opening layout has_ring("WHITE") and has_ring("BLACK") are both
\* True.
C19_OpeningRings ==
  stoneList = populate => (has_ring(stoneList, "WHITE") /\ has_ring(stoneList, "BLACK"))

\* A call has been made and the collection is the opening layout, on which
\* each player has a ring.
C19_Witness ==
  /\ calls > 0
  /\ stoneList = populate
  /\ has_ring(stoneList, "WHITE")
  /\ has_ring(stoneList, "BLACK")

\* C20: is_legal returns False for every move whose piece, once lifted, leaves
\* the mover without any ring, whatever the destination.
C20_RingBreakingMoveRejected ==
  [][(/\ Called("is_legal")
      /\ ~has_ring(pick_up(stoneList, move.piece), move.currentPlayer))
       => ~last'.ret]_vars

\* is_legal answered False for a move that passes every other gate: the mover
\* has a ring, and has none as soon as the piece is lifted.
C20_Witness ==
  /\ last.op = "is_legal"
  /\ ~last.ret
  /\ Piece_is_legal(stoneList, last.move.piece, last.move.currentPlayer)
  /\ is_direction_valid(last.move)
  /\ is_distance_valid(last.move)
  /\ is_path_clear(stoneList, last.move.piece, last.move.origin,
                   last.move.destination, last.move.direction).isClear
  /\ has_ring(stoneList, last.move.currentPlayer)
  /\ ~has_ring(pick_up(stoneList, last.move.piece), last.move.currentPlayer)

\* C21: a move with origin = destination is rejected by Move.is_legal: its
\* direction is (0, 0), which is not among the piece's legal directions, so the
\* direction gate fails although is_path_clear returns True.
C21_ZeroLengthMoveRejected ==
  (move # NoMove /\ move.origin = move.destination) =>
    /\ move.direction = << 0, 0 >>
    /\ << 0, 0 >> \notin Range(move.piece.directions)
    /\ ~is_direction_valid(move)
    /\ is_path_clear(stoneList, move.piece, move.origin, move.destination,
                     move.direction).isClear
    /\ ~is_legal(stoneList, move).ret

\* is_legal answered False for a move of a legal piece onto its own origin.
C21_Witness ==
  /\ last.op = "is_legal"
  /\ ~last.ret
  /\ last.move.origin = last.move.destination
  /\ Piece_is_legal(stoneList, last.move.piece, last.move.currentPlayer)
  /\ \E k \in DOMAIN last.move.piece.stoneList :
       Loc(StoneById(stoneList, last.move.piece.stoneList[k])) = last.move.origin

\* C22: the board of a new game holds 43 WHITE and 43 BLACK stones, none
\* hidden, no two on one cell, all with row and column in 2..19, and BLACK has
\* a stone at (r, c) exactly when WHITE has one at (21 - r, c).
C22_OpeningLayout ==
  calls = 0 =>
    LET of(owner) == { i \in DOMAIN stoneList : stoneList[i].owner = owner }
    IN  /\ Cardinality(of("WHITE")) = 43
        /\ Cardinality(of("BLACK")) = 43
        /\ Len(stoneList) = 86
        /\ \A i \in DOMAIN stoneList :
             /\ ~stoneList[i].hidden
             /\ stoneList[i].row \in 2..19
             /\ stoneList[i].col \in 2..19
        /\ \A i, j \in DOMAIN stoneList : i # j => Loc(stoneList[i]) # Loc(stoneList[j])
        /\ \A r \in 1..20, c \in 1..20 :
             (\E i \in of("BLACK") : Loc(stoneList[i]) = << r, c >>)
               <=> (\E j \in of("WHITE") : Loc(stoneList[j]) = << 21 - r, c >>)

\* The new game: no call made, a BLACK stone at (7, 3) and a WHITE one at (14, 3).
C22_Witness ==
  /\ calls = 0
  /\ \E i \in DOMAIN stoneList :
       Loc(stoneList[i]) = << 7, 3 >> /\ stoneList[i].owner = "BLACK"
  /\ \E j \in DOMAIN stoneList :
       Loc(stoneList[j]) = << 14, 3 >> /\ stoneList[j].owner = "WHITE"

\* C23: over any sequence of make_move and resign_game calls no stone is
\* created and no stone changes owner, so each player's count never grows; a
\* stone leaves the collection only in an accepted make_move, either from the
\* destination footprint (captured) or as a stone of the moved piece that
\* lands on row or column 1 or 20.
C23_StonesOnlyLeave ==
  [][/\ \A j \in DOMAIN stoneList' :
          \E i \in DOMAIN stoneList :
            /\ stoneList[i].id = stoneList'[j].id
            /\ stoneList[i].owner = stoneList'[j].owner
     /\ \A owner \in {"WHITE", "BLACK"} :
          Cardinality({ j \in DOMAIN stoneList' : stoneList'[j].owner = owner })
            <= Cardinality({ i \in DOMAIN stoneList : stoneList[i].owner = owner })
     /\ \A i \in DOMAIN stoneList :
          stoneList[i].id \notin Ids(stoneList') =>
            /\ Called("make_move")
            /\ last'.ret
            /\ LET m      == last'.move
                   displ  == get_displacement(m.origin, m.destination)
                   newLoc == << stoneList[i].row + displ[1], stoneList[i].col + displ[2] >>
               IN  IF stoneList[i].id \in Range(m.piece.stoneList)
                   THEN newLoc[1] \in {1, 20} \/ newLoc[2] \in {1, 20}
                   ELSE Loc(stoneList[i]) \in Footprint(m.destination)]_vars

\* An accepted make_move has taken a stone that was not of the moved piece:
\* fewer than 86 stones are left.
C23_Witness ==
  /\ last.op = "make_move"
  /\ last.ret
  /\ \E id \in 1..86 : id \notin Ids(stoneList) /\ id \notin Range(last.move.piece.stoneList)

\* C24: is_path_clear, called with the origin of the piece, returns with the
\* board as it found it: the same stones at the same locations with the same
\* owners, every stone of the piece revealed, the hidden flags of the others
\* as they were.
C24_PathClearRestoresBoard ==
  [][(frame.pc = "loop" /\ frame'.pc = "idle") =>
       /\ Len(stoneList') = Len(frame.before)
       /\ \A i \in DOMAIN frame.before :
            /\ stoneList'[i].id = frame.before[i].id
            /\ Loc(stoneList'[i]) = Loc(frame.before[i])
            /\ stoneList'[i].owner = frame.before[i].owner
            /\ IF frame.before[i].id \in Range(move.piece.stoneList)
               THEN ~stoneList'[i].hidden
               ELSE stoneList'[i].hidden = frame.before[i].hidden]_vars

\* is_path_clear has returned False for a piece of several stones, which all
\* stand revealed in the footprint of the origin.
C24_Witness ==
  /\ last.op = "is_path_clear"
  /\ ~last.ret
  /\ frame = NoFrame
  /\ Len(last.move.piece.stoneList) > 1
  /\ \A k \in DOMAIN last.move.piece.stoneList :
       LET st == StoneById(stoneList, last.move.piece.stoneList[k])
       IN  ~st.hidden /\ Loc(st) \in Footprint(last.move.origin)

\* C25: a call of Board.is_path_clear with origin and destination in the grid
\* and a direction among the 8 unit vectors and (0, 0) returns.
C25_PathCallReturns == (frame.pc = "loop") ~> (frame.pc = "idle")

\* C26: Board.capture(center), as move_piece calls it on the destination with
\* the piece lifted, removes every stone of the footprint of center that is
\* not hidden, leaves every other stone as it is, and applied a second time
\* changes nothing.
C26_CaptureClearsFootprint ==
  [][(Called("make_move") /\ last'.ret) =>
       \E lifted \in { pick_up(stoneList, last'.move.piece) } :
         \E after \in { capture(lifted, last'.move.destination) } :
           /\ Range(after) =
                { st \in Range(lifted) :
                    ~(Loc(st) \in Footprint(last'.move.destination) /\ ~st.hidden) }
           /\ capture(after, last'.move.destination) = after]_vars

\* C27: building a Piece and a Move from a coordinate outside the 1..20 grid
\* raises an error.
C27_OffGridCoordinateRaises ==
  (/\ last.op = "Move"
   /\ \E x \in { last.move.origin[1], last.move.origin[2],
                 last.move.destination[1], last.move.destination[2] } :
        x \notin OUTER_LOWER_BOUND..OUTER_UPPER_BOUND)
    => last.raised

\* C28: after a make_move by P that returned True the game state is P_WON if
\* the opponent of P has no ring on the resulting board and is what it was
\* before the call otherwise; a make_move that returned False leaves the game
\* state as it was.
C28_VictoryByRing ==
  [][Called("make_move") =>
       IF last'.ret
       THEN gameState' = IF ~has_ring(stoneList', IF currentPlayer = "BLACK"
                                                 THEN "WHITE" ELSE "BLACK")
                         THEN (IF currentPlayer = "BLACK" THEN "BLACK_WON" ELSE "WHITE_WON")
                         ELSE gameState
       ELSE gameState' = gameState]_vars

\* WHITE has made a move after which BLACK has no ring, and WHITE has won.
C28_Witness ==
  /\ last.op = "make_move"
  /\ last.ret
  /\ last.move.currentPlayer = "WHITE"
  /\ ~has_ring(stoneList, "BLACK")
  /\ gameState = "WHITE_WON"

\* C29: BLACK is the current player of a new game; a make_move that returns
\* True is made by the current player and hands the turn to the other player;
\* a make_move that returns False and resign_game leave the current player as
\* it is.
C29_TurnsAlternate ==
  /\ currentPlayer = "BLACK"
  /\ [][IF Called("make_move") /\ last'.ret
        THEN /\ last'.move.currentPlayer = currentPlayer
             /\ currentPlayer' = IF currentPlayer = "BLACK" THEN "WHITE" ELSE "BLACK"
        ELSE currentPlayer' = currentPlayer]_vars

\* Two moves have been accepted, the second one WHITE's: it is BLACK's turn.
C29_Witness ==
  /\ last.op = "make_move"
  /\ last.ret
  /\ last.move.currentPlayer = "WHITE"
  /\ currentPlayer = "BLACK"

\* C30: is_game_over() is True exactly when the game state is not UNFINISHED,
\* and a make_move made when the state is BLACK_WON or WHITE_WON returns False
\* and changes neither the board, the current player nor the game state.
C30_NoMoveAfterGameOver ==
  [][Called("make_move") =>
       /\ is_game_over(gameState) <=> gameState # "UNFINISHED"
       /\ gameState # "UNFINISHED" =>
            /\ ~last'.ret
            /\ UNCHANGED << stoneList, currentPlayer, gameState >>]_vars

\* C31: resign_game sets the game state to the win of the opponent of the
\* current player (WHITE_WON when BLACK is to move, BLACK_WON when WHITE is to
\* move) and changes neither the stone collection nor the current player.
C31_ResignGivesOpponentWin ==
  [][Called("resign_game") =>
       /\ gameState' = IF currentPlayer = "BLACK" THEN "WHITE_WON" ELSE "BLACK_WON"
       /\ stoneList' = stoneList
       /\ currentPlayer' = currentPlayer]_vars

\* WHITE, to move after an accepted move of BLACK, has resigned: BLACK has won.
C31_Witness ==
  /\ last.op = "resign_game"
  /\ currentPlayer = "WHITE"
  /\ gameState = "BLACK_WON"

\* A string made of one column letter in b..s followed by a row number in 2..19
WellFormed(coordinate) ==
  /\ Len(coordinate) >= 2
  /\ coordinate[1] \in { "b", "c", "d", "e", "f", "g", "h", "i", "j",
                         "k", "l", "m", "n", "o", "p", "q", "r", "s" }
  /\ \A k \in 2..Len(coordinate) : IsDigit(coordinate[k])
  /\ int(Tail(coordinate)) \in 2..19

\* C32: make_move returns False, without raising and without changing the
\* board, the current player or the game state, whenever one of its two
\* arguments is not a column letter in b..s followed by a row number in 2..19;
\* and the conversion to a (row, column) pair succeeds for every argument that
\* is_input_coordinate_valid accepts.
C32_InvalidCoordinateRejected ==
  [][\A in \in MoveInputs :
       /\ ((~WellFormed(in[1]) \/ ~WellFormed(in[2])) /\ MakeMove(in[1], in[2])) =>
            /\ ~last'.raised
            /\ ~last'.ret
            /\ UNCHANGED << stoneList, currentPlayer, gameState >>
       /\ \A k \in 1..2 :
            (is_input_coordinate_valid(in[k]) /\ MakeMove(in[1], in[2])) =>
              /\ convert_to_numeric_tuple(in[k]) # ValueError
              /\ convert_to_numeric_tuple(in[k]) # False]_vars

\* C33: whenever make_move has returned, True or False, no stone of the
\* collection is hidden: every pick_up made by is_legal, is_path_clear or
\* move_piece has been undone by a put_down.
C33_NoStoneHiddenAfterMakeMove ==
  (last.op = "make_move" /\ ~last.raised) =>
    \A i \in DOMAIN stoneList : ~stoneList[i].hidden

\* A cell of rows and columns 3..18 that holds no stone and whose 8 neighbours
\* all hold stones, every one of them owned by owner, hidden or not
RingOnBoard(sl, owner) ==
  \E row, col \in (INNER_LOWER_BOUND + 1)..(INNER_UPPER_BOUND - 1) :
    /\ \A i \in DOMAIN sl : Loc(sl[i]) # << row, col >>
    /\ \A loc \in Footprint(<< row, col >>) \ { << row, col >> } :
         /\ \E i \in DOMAIN sl : Loc(sl[i]) = loc
         /\ \A i \in DOMAIN sl : Loc(sl[i]) = loc => sl[i].owner = owner

\* C34: whenever make_move sets the game state to P_WON, the collection holds
\* no ring of the opponent of P, counting stones whether hidden or not.
C34_WinOnlyWhenRingGone ==
  [][(Called("make_move") /\ gameState' # gameState) =>
       /\ gameState' = "BLACK_WON" => ~RingOnBoard(stoneList', "WHITE")
       /\ gameState' = "WHITE_WON" => ~RingOnBoard(stoneList', "BLACK")]_vars

\* C35: once the game state is BLACK_WON or WHITE_WON, no make_move and no
\* resign_game changes it to another value.
C35_DecidedStateAbsorbing ==
  [][(gameState = "BLACK_WON" \/ gameState = "WHITE_WON") => gameState' = gameState]_vars

\* C36: an accepted make_move of player P relocates exactly the stones of the
\* origin footprint, all of them owned by P and each by the vector
\* destination - origin; every other stone that stays in the collection, and
\* so every stone of the opponent, keeps its location.
C36_OnlyOriginFootprintRelocated ==
  [][(Called("make_move") /\ last'.ret) =>
       \E displ \in { get_displacement(last'.move.origin, last'.move.destination) } :
         \A i \in DOMAIN stoneList :
           IF Loc(stoneList[i]) \in Footprint(last'.move.origin)
           THEN /\ stoneList[i].owner = currentPlayer
                /\ \A j \in DOMAIN stoneList' :
                     stoneList'[j].id = stoneList[i].id =>
                       Loc(stoneList'[j]) = << stoneList[i].row + displ[1],
                                               stoneList[i].col + displ[2] >>
           ELSE \A j \in DOMAIN stoneList' :
                  stoneList'[j].id = stoneList[i].id =>
                    Loc(stoneList'[j]) = Loc(stoneList[i])]_vars

\* C37: Board.move_piece(piece, destination) changes only stones that lie in
\* the origin footprint or in the destination footprint before the call; every
\* other stone stays in the collection with its location, owner and hidden
\* flag.
C37_MovePieceTouchesTwoFootprints ==
  [][Called("move_piece") =>
       \A i \in DOMAIN stoneList :
         (/\ Loc(stoneList[i]) \notin Footprint(last'.move.origin)
          /\ Loc(stoneList[i]) \notin Footprint(last'.move.destination))
           => \E j \in DOMAIN stoneList' : stoneList'[j] = stoneList[i]]_vars

\* move_piece has taken stones off the board while a hidden stone lay outside
\* both footprints, and that stone is still hidden.
C37_Witness ==
  /\ last.op = "move_piece"
  /\ Len(stoneList) < 86
  /\ \E i \in DOMAIN stoneList :
       /\ stoneList[i].hidden
       /\ Loc(stoneList[i]) \notin Footprint(last.move.origin)
       /\ Loc(stoneList[i]) \notin Footprint(last.move.destination)

\* The stones found about the centre reached after n steps of the walk are
\* all hidden
StepClear(n) ==
  LET idx == get_stones_about_center(stoneList,
               << move.origin[1] + n * frame.direction[1],
                  move.origin[2] + n * frame.direction[2] >>)
  IN  is_empty([k \in DOMAIN idx |-> stoneList[idx[k]]])

\* The walk of is_path_clear inside make_move has made k steps of the move's
\* direction from the origin, k at most max(|row displacement|, |column
\* displacement|), where it is at the destination; the footprints passed were
\* empty, except the last one if the walk has been stopped
WalkOnRoute ==
  \E k \in 0..(IF abs(move.rowDisplacement) > abs(move.colDisplacement)
               THEN abs(move.rowDisplacement) ELSE abs(move.colDisplacement)) :
    /\ frame.center = << move.origin[1] + k * frame.direction[1],
                         move.origin[2] + k * frame.direction[2] >>
    /\ frame.center = move.destination <=>
         k = (IF abs(move.rowDisplacement) > abs(move.colDisplacement)
              THEN abs(move.rowDisplacement) ELSE abs(move.colDisplacement))
    /\ IF frame.isClear
       THEN \A n \in 0..(k - 1) : StepClear(n)
       ELSE /\ k >= 1
            /\ ~StepClear(k - 1)
            /\ \A n \in 0..(k - 2) : StepClear(n)

\* C38: every make_move call terminates: the walk of is_path_clear, entered
\* only after the direction gate, goes from the origin in unit steps of the
\* move's direction and arrives at the destination after max(|row
\* displacement|, |column displacement|) steps or stops earlier at the first
\* footprint that is not empty; the call then returns.
C38_MakeMoveTerminates ==
  /\ []((frame.pc = "loop" /\ frame.caller = "is_legal") => WalkOnRoute)
  /\ ((frame.pc = "loop") ~> (frame.pc = "idle"))

\* The walk of a move of three rows has arrived at the destination with
\* every footprint on the way empty.
C38_Witness ==
  /\ frame.pc = "loop"
  /\ frame.caller = "is_legal"
  /\ frame.isClear
  /\ frame.center = move.destination
  /\ abs(move.rowDisplacement) = 3

====
